---- MODULE Spec2Model ----
(***************************************************************************)
(* A model of datamodel_code_generator/types.py: the DataType node, its    *)
(* constructor (the dependency / import fold), the type_hint rendering and *)
(* the all_data_types generator.                                           *)
(*                                                                         *)
(* An Optional[X] field is a sequence of at most one element: None is <<>> *)
(* and a value x is <<x>>.  A rendered string is the sequence of its       *)
(* tokens; the empty string is <<>>.  kwargs, an insertion-ordered dict,   *)
(* is a sequence of <<key, value>> pairs.  A node of a tree is named by    *)
(* its path, the sequence of child indexes leading to it from the root.    *)
(***************************************************************************)
EXTENDS Integers, Sequences, FiniteSets, TLC

VARIABLES stack, node, hint, rendered, frames, out, prev, runs

vars == <<stack, node, hint, rendered, frames, out, prev, runs>>

\* The largest number of nodes held by the construction machine.
MaxNodes == 3

\* The largest number of children of a rendered node.
MaxChildren == 2

\* The number of times the all_data_types property is iterated.
MaxRuns == 2

None == <<>>

Some(x) == <<x>>

Range(s) == {s[i] : i \in 1..Len(s)}

\* Python's truth value of an Optional[str]: None and '' are false.
StrTruthy(o) == o # None /\ o[1] # ""

\* Python's truth value of an Optional[Dict]: None and {} are false.
DictTruthy(o) == o # None /\ Len(o[1]) > 0

PY_36 == "PY_36"

PY_37 == "PY_37"

IMPORT_LIST == "List"

IMPORT_DICT == "Dict"

IMPORT_OPTIONAL == "Optional"

IMPORT_UNION == "Union"

\* The two node classes: DataTypePy36 only changes the default version.
Classes == {"DataType", "DataTypePy36"}

DefaultPythonVersion(cls) == IF cls = "DataTypePy36" THEN PY_36 ELSE PY_37

\* A keyword argument of the constructor, or the field's default.
Field(values, name, default) ==
    IF name \in DOMAIN values THEN values[name] ELSE default

\* super().__init__(**values): the fields as given, defaults elsewhere.
\* The model class copies a mutable default ([], the empty set) for each
\* instance, so no two nodes share a list or a set.
BaseModelInit(cls, values) ==
    [type             |-> Field(values, "type", None),
     reference        |-> Field(values, "reference", None),
     data_types       |-> Field(values, "data_types", <<>>),
     is_func          |-> Field(values, "is_func", FALSE),
     kwargs           |-> Field(values, "kwargs", None),
     imports_         |-> Field(values, "imports_", <<>>),
     python_version   |-> Field(values, "python_version", DefaultPythonVersion(cls)),
     unresolved_types |-> Field(values, "unresolved_types", {}),
     ref              |-> Field(values, "ref", FALSE),
     is_optional      |-> Field(values, "is_optional", FALSE),
     is_dict          |-> Field(values, "is_dict", FALSE),
     is_list          |-> Field(values, "is_list", FALSE)]

\* AddOwnType with the test of reference and ref left out.
AddOwnType_AnyName(self) ==
    IF StrTruthy(self.type)
    THEN [self EXCEPT !.unresolved_types = @ \cup {self.type[1]}]
    ELSE self

\* if self.type and (self.reference or self.ref): unresolved_types.add(type)
AddOwnType(self) ==
    IF StrTruthy(self.type) /\ (self.reference # None \/ self.ref)
    THEN [self EXCEPT !.unresolved_types = @ \cup {self.type[1]}]
    ELSE self

\* if field and import_ not in self.imports_: self.imports_.append(import_)
AppendImport(self, field, import_) ==
    IF field /\ import_ \notin Range(self.imports_)
    THEN [self EXCEPT !.imports_ = Append(@, import_)]
    ELSE self

\* The loop over the four (field, import_) pairs, in the order of the tuple.
AddOwnImports(self) ==
    LET s1 == AppendImport(self, self.is_list, IMPORT_LIST)
        s2 == AppendImport(s1, s1.is_dict, IMPORT_DICT)
        s3 == AppendImport(s2, s2.is_optional, IMPORT_OPTIONAL)
    IN  AppendImport(s3, Len(s3.data_types) > 1, IMPORT_UNION)

\* MergeChild assigning the child's imports instead of extending by them.
MergeChild_Assign(self, data_type) ==
    [self EXCEPT !.imports_ = data_type.imports_,
                 !.unresolved_types = @ \cup data_type.unresolved_types]

\* MergeChild taking the child's unresolved types only when it has none yet.
MergeChild_FirstOnly(self, data_type) ==
    [self EXCEPT !.imports_ = @ \o data_type.imports_,
                 !.unresolved_types =
                     IF @ = {} THEN data_type.unresolved_types ELSE @]

\* One round of the loop over the children: extend and update.
MergeChild(self, data_type) ==
    [self EXCEPT !.imports_ = @ \o data_type.imports_,
                 !.unresolved_types = @ \cup data_type.unresolved_types]

RECURSIVE MergeFrom(_, _)
\* for data_type in self.data_types, from the i-th child on.
MergeFrom(self, i) ==
    IF i > Len(self.data_types) THEN self
    ELSE MergeFrom(MergeChild(self, self.data_types[i]), i + 1)

MergeChildren(self) == MergeFrom(self, 1)

\* DataType.__init__ (and DataTypePy36's, which inherits it).
DataType(cls, values) ==
    MergeChildren(AddOwnImports(AddOwnType(BaseModelInit(cls, values))))

\* A Reference, as far as this module reads it: its name.
Reference(name) == [name |-> name]

from_model_name(cls, model_name, is_list) ==
    DataType(cls, [type |-> Some(model_name), ref |-> TRUE, is_list |-> is_list])

from_reference(cls, reference, is_list) ==
    DataType(cls, [type |-> Some(reference.name), reference |-> Some(reference),
                   is_list |-> is_list])

\* f"'{self.type}'"
Quoted(name) == <<"'", name, "'">>

\* NameForm quoting a symbolic name whatever the version.
NameForm_AnyVersion(self) ==
    IF self.reference # None \/ self.ref
    THEN Quoted(self.type[1])
    ELSE <<self.type[1]>>

\* The branch taken when self.type is true: the name, quoted for PY_36 when
\* the node has a reference or the ref flag.
NameForm(self) ==
    IF (self.reference # None \/ self.ref) /\ self.python_version = PY_36
    THEN Quoted(self.type[1])
    ELSE <<self.type[1]>>

RECURSIVE JoinFrom(_, _, _)
\* sep.join(strs), from the i-th string on.
JoinFrom(sep, strs, i) ==
    IF i > Len(strs) THEN <<>>
    ELSE IF i = Len(strs) THEN strs[i]
    ELSE strs[i] \o <<sep>> \o JoinFrom(sep, strs, i + 1)

Join(sep, strs) == JoinFrom(sep, strs, 1)

\* ChildrenForm making a Union of a single child too.
ChildrenForm_UnionOfOne(types) ==
    IF Len(types) >= 1 THEN <<"Union", "[">> \o Join(", ", types) \o <<"]">>
    ELSE <<>>

\* The branch taken when self.type is false, given the children's hints.
ChildrenForm(types) ==
    IF Len(types) > 1 THEN <<"Union", "[">> \o Join(", ", types) \o <<"]">>
    ELSE IF Len(types) = 1 THEN types[1]
    ELSE <<>>

\* if self.is_list: type_ = f'List[{type_}]' if type_ else 'List'
WrapList(self, type_) ==
    IF ~self.is_list THEN type_
    ELSE IF type_ # <<>> THEN <<"List", "[">> \o type_ \o <<"]">>
    ELSE <<"List">>

\* if self.is_dict: type_ = f'Dict[str, {type_}]' if type_ else 'Dict'
WrapDict(self, type_) ==
    IF ~self.is_dict THEN type_
    ELSE IF type_ # <<>> THEN <<"Dict", "[", "str", ", ">> \o type_ \o <<"]">>
    ELSE <<"Dict">>

\* if self.is_optional: type_ = f'Optional[{type_}]'
WrapOptional(self, type_) ==
    IF ~self.is_optional THEN type_
    ELSE <<"Optional", "[">> \o type_ \o <<"]">>

\* Wrap with the optional wrapper applied first, innermost.
Wrap_OptionalFirst(self, type_) ==
    WrapDict(self, WrapList(self, WrapOptional(self, type_)))

\* The three wrapper statements in the order the code runs them.
Wrap(self, type_) == WrapOptional(self, WrapDict(self, WrapList(self, type_)))

\* f'{k}={v}' for one item of kwargs; the value is formatted by str().
KwargForm(item) == <<item[1], "=", ToString(item[2])>>

\* CallForm leaving the argument list out when there are no kwargs.
CallForm_OmitEmpty(self, type_) ==
    IF ~self.is_func THEN type_
    ELSE IF DictTruthy(self.kwargs)
    THEN type_ \o <<"(">>
         \o Join(", ", [i \in 1..Len(self.kwargs[1]) |-> KwargForm(self.kwargs[1][i])])
         \o <<")">>
    ELSE type_

\* The is_func branch: the call with its arguments, or the value as it is.
CallForm(self, type_) ==
    IF ~self.is_func THEN type_
    ELSE IF DictTruthy(self.kwargs)
    THEN type_ \o <<"(">>
         \o Join(", ", [i \in 1..Len(self.kwargs[1]) |-> KwargForm(self.kwargs[1][i])])
         \o <<")">>
    ELSE type_ \o <<"(", ")">>

RECURSIVE type_hint(_)
\* The form before the wrappers: the name, or the children's hints.
InnerForm(self) ==
    IF StrTruthy(self.type) THEN NameForm(self)
    ELSE ChildrenForm([i \in 1..Len(self.data_types) |-> type_hint(self.data_types[i])])

\* DataType.type_hint
type_hint(self) == CallForm(self, Wrap(self, InnerForm(self)))

RECURSIVE NodeAt(_, _)
\* The node of the tree under root that the path names.
NodeAt(root, path) ==
    IF path = <<>> THEN root
    ELSE NodeAt(root.data_types[path[1]], Tail(path))

RECURSIVE TreeSize(_)
RECURSIVE ForestSize(_)
\* The number of nodes of a tree, and of a sequence of trees.
TreeSize(tree) == 1 + ForestSize(tree.data_types)

ForestSize(forest) ==
    IF forest = <<>> THEN 0
    ELSE TreeSize(Head(forest)) + ForestSize(Tail(forest))

RECURSIVE Paths(_)
\* The paths of all nodes of a tree.
Paths(tree) ==
    {<<>>} \cup UNION {{<<i>> \o p : p \in Paths(tree.data_types[i])} :
                       i \in 1..Len(tree.data_types)}

\* All nodes of a tree, the root included, as values.
Subtree(tree) == {NodeAt(tree, p) : p \in Paths(tree)}

\* A node nobody has constructed yet stands for "no node".
NoNode == BaseModelInit("DataType", <<>>)

(***************************************************************************)
(* Construction.  The nodes built so far and not yet given to a parent are *)
(* kept in stack, oldest first; a constructor call takes the newest j of   *)
(* them as its data_types and leaves the node it builds in their place.    *)
(***************************************************************************)
ModelNames == {"Pet"}

References == {Reference("Tag")}

DirectTypes == {None, Some("int")}

BuildIdle ==
    /\ node = NoNode /\ hint = <<>> /\ rendered = FALSE
    /\ frames = <<>> /\ out = <<>> /\ prev = <<>> /\ runs = 0

InitBuild == stack = <<>> /\ BuildIdle

\* DataType.from_model_name(model_name, is_list)
FromModelName ==
    \E model_name \in ModelNames, is_list \in BOOLEAN :
        /\ ForestSize(stack) < MaxNodes
        /\ stack' = Append(stack, from_model_name("DataType", model_name, is_list))
        /\ UNCHANGED <<node, hint, rendered, frames, out, prev, runs>>

\* DataType.from_reference(reference, is_list)
FromReference ==
    \E reference \in References, is_list \in BOOLEAN :
        /\ ForestSize(stack) < MaxNodes
        /\ stack' = Append(stack, from_reference("DataType", reference, is_list))
        /\ UNCHANGED <<node, hint, rendered, frames, out, prev, runs>>

\* DataType(type=..., ref=..., is_optional=..., data_types=[...])
Construct ==
    \E type \in DirectTypes, ref \in BOOLEAN, is_optional \in BOOLEAN,
       j \in 0..Len(stack) :
        /\ ForestSize(stack) < MaxNodes
        /\ LET n == Len(stack)
               data_types == SubSeq(stack, n - j + 1, n)
           IN  stack' = Append(SubSeq(stack, 1, n - j),
                               DataType("DataType",
                                        [type |-> type, ref |-> ref,
                                         is_optional |-> is_optional,
                                         data_types |-> data_types]))
        /\ UNCHANGED <<node, hint, rendered, frames, out, prev, runs>>

NextBuild == FromModelName \/ FromReference \/ Construct

SpecBuild == InitBuild /\ [][NextBuild]_vars

\* Every node constructed so far: the nodes of stack and all below them.
Built == UNION {Subtree(stack[i]) : i \in 1..Len(stack)}

\* The last node constructed, when there is one.
Newest == stack[Len(stack)]

NoDuplicates(s) == \A i, k \in 1..Len(s) : s[i] = s[k] => i = k

\* A symbolic node: one with a reference or the ref flag.
Symbolic(n) == n.reference # None \/ n.ref

\* C1: the imports_ of every constructed node holds each helper symbol at
\* most once, IMPORT_UNION included.
C1_ImportsDeduplicated == \A n \in Built : NoDuplicates(n.imports_)

\* C2: every constructed node holds the unresolved types and the imports of
\* each of its children, and so those of every node of its subtree.
C2_Monotone ==
    \A n \in Built :
        /\ \A i \in 1..Len(n.data_types) :
              /\ n.data_types[i].unresolved_types \subseteq n.unresolved_types
              /\ Range(n.data_types[i].imports_) \subseteq Range(n.imports_)
        /\ \A m \in Subtree(n) :
              /\ m.unresolved_types \subseteq n.unresolved_types
              /\ Range(m.imports_) \subseteq Range(n.imports_)

\* A parent was built over a child that has an unresolved type and an import.
C2_Witness ==
    /\ stack # <<>>
    /\ Len(Newest.data_types) = 2
    /\ \E i \in 1..2 : /\ Newest.data_types[i].unresolved_types # {}
                       /\ Newest.data_types[i].imports_ # <<>>

\* A node constructed with only its type set.
OnlyType(n) ==
    /\ StrTruthy(n.type) /\ n.reference = None /\ ~n.ref /\ n.data_types = <<>>

\* C3 as stated: a node constructed with only its type set has its name
\* among its unresolved types.
C3_OnlyTypeIsUnresolved ==
    \A n \in Built : OnlyType(n) => n.type[1] \in n.unresolved_types

\* C3: a node constructed with only its type set has no unresolved types;
\* a leaf records its name exactly when it has a reference or the ref flag.
C3_OnlyTypeIsResolved ==
    \A n \in Built :
        /\ OnlyType(n) => n.unresolved_types = {}
        /\ (StrTruthy(n.type) /\ n.data_types = <<>>) =>
              (n.type[1] \in n.unresolved_types <=> Symbolic(n))

\* DataType(type='int') has been constructed.
C3_Witness == stack # <<>> /\ OnlyType(Newest) /\ Newest.imports_ = <<>>

\* C10: the unresolved types of a constructed node are exactly the names of
\* the named symbolic nodes of its subtree, itself included.
C10_ExactFold ==
    \A n \in Built :
        n.unresolved_types =
            {m.type[1] : m \in {k \in Subtree(n) : StrTruthy(k.type) /\ Symbolic(k)}}

\* A named symbolic parent was built over a child that is symbolic too, and
\* over one that is not.
C10_Witness ==
    /\ stack # <<>>
    /\ StrTruthy(Newest.type) /\ Symbolic(Newest)
    /\ Cardinality(Newest.unresolved_types) = 2
    /\ \E i \in 1..Len(Newest.data_types) : ~Symbolic(Newest.data_types[i])

(***************************************************************************)
(* Rendering.  A node is constructed from bounded sets of field values     *)
(* over children taken from a pool of constructed nodes; reading its       *)
(* type_hint property stores the rendered string.                          *)
(***************************************************************************)
RenderTypes == {None, Some(""), Some("int"), Some("Pet"), Some("Field")}

RenderReferences == {None, Some(Reference("Pet"))}

RenderKwargs ==
    {None, Some(<<>>), Some(<< <<"default", 1>> >>),
     Some(<< <<"default", 1>>, <<"alias", 20>> >>)}

\* Children to render under a node: 'int', "List['Pet']", '' and
\* 'Optional[Union[str, Tag]]'.
ChildPool ==
    {DataType("DataType", [type |-> Some("int")]),
     from_model_name("DataTypePy36", "Pet", TRUE),
     DataType("DataType", <<>>),
     DataType("DataType",
              [is_optional |-> TRUE,
               data_types |-> <<DataType("DataType", [type |-> Some("str")]),
                                from_reference("DataType", Reference("Tag"), FALSE)>>])}

\* The sequences of at most n members of pool.
SeqsUpTo(pool, n) == UNION {[1..k -> pool] : k \in 0..n}

RenderNodes ==
    {DataType(cls, [type |-> type, reference |-> reference, ref |-> ref,
                    is_list |-> is_list, is_dict |-> is_dict,
                    is_optional |-> is_optional, is_func |-> is_func,
                    kwargs |-> kwargs, data_types |-> data_types]) :
        cls \in Classes, type \in RenderTypes, reference \in RenderReferences,
        ref \in BOOLEAN, is_list \in BOOLEAN, is_dict \in BOOLEAN,
        is_optional \in BOOLEAN, is_func \in BOOLEAN, kwargs \in RenderKwargs,
        data_types \in SeqsUpTo(ChildPool, MaxChildren)}

InitRender ==
    /\ node \in RenderNodes
    /\ hint = <<>> /\ rendered = FALSE
    /\ stack = <<>> /\ frames = <<>> /\ out = <<>> /\ prev = <<>> /\ runs = 0

\* node.type_hint is read.
Render ==
    /\ ~rendered
    /\ hint' = type_hint(node)
    /\ rendered' = TRUE
    /\ UNCHANGED <<stack, node, frames, out, prev, runs>>

NextRender == Render

SpecRender == InitRender /\ [][NextRender]_vars

ListOf(x) == <<"List", "[">> \o x \o <<"]">>

DictOf(x) == <<"Dict", "[", "str", ", ">> \o x \o <<"]">>

OptionalOf(x) == <<"Optional", "[">> \o x \o <<"]">>

\* The node with its three shape flags and is_func cleared.
Bare(n) ==
    [n EXCEPT !.is_list = FALSE, !.is_dict = FALSE, !.is_optional = FALSE,
              !.is_func = FALSE]

NoFlags(n) == ~n.is_list /\ ~n.is_dict /\ ~n.is_optional

\* C4: with a non-empty inner form X and is_func false, the hint is X under
\* the list wrapper, then the mapping wrapper, then the optional wrapper
\* outermost, each only when its flag is set.
C4_WrapperOrder ==
    LET X == type_hint(Bare(node))
        l == node.is_list
        d == node.is_dict
        o == node.is_optional
    IN  (rendered /\ ~node.is_func /\ X # <<>>) =>
            /\ (~l /\ ~d /\ ~o) => hint = X
            /\ (l /\ ~d /\ ~o) => hint = ListOf(X)
            /\ (~l /\ d /\ ~o) => hint = DictOf(X)
            /\ (~l /\ ~d /\ o) => hint = OptionalOf(X)
            /\ (l /\ d /\ ~o) => hint = DictOf(ListOf(X))
            /\ (l /\ ~d /\ o) => hint = OptionalOf(ListOf(X))
            /\ (~l /\ d /\ o) => hint = OptionalOf(DictOf(X))
            /\ (l /\ d /\ o) => hint = OptionalOf(DictOf(ListOf(X)))

\* 'Optional[List[int]]' has been rendered.
C4_Witness ==
    /\ rendered /\ ~node.is_func
    /\ node.type = Some("int") /\ node.is_list /\ node.is_optional /\ ~node.is_dict
    /\ hint = <<"Optional", "[", "List", "[", "int", "]", "]">>

\* No '[' of the string is followed at once by ']'.
NoEmptyBrackets(s) == \A i \in 1..(Len(s) - 1) : ~(s[i] = "[" /\ s[i + 1] = "]")

\* C5: a node with no name and no children renders a lone set flag as the
\* bare helper name, List, Dict or Optional, and no hint holds '[]'.
C5_EmptyInnerBareNames ==
    rendered =>
        /\ NoEmptyBrackets(hint)
        /\ (~StrTruthy(node.type) /\ node.data_types = <<>> /\ ~node.is_func) =>
              /\ (node.is_list /\ ~node.is_dict /\ ~node.is_optional)
                     => hint = <<"List">>
              /\ (~node.is_list /\ node.is_dict /\ ~node.is_optional)
                     => hint = <<"Dict">>
              /\ (~node.is_list /\ ~node.is_dict /\ node.is_optional)
                     => hint = <<"Optional">>

RECURSIVE C6_Alternatives(_, _)
\* The hints of the first k children, separated by ', '.
C6_Alternatives(n, k) ==
    IF k = 1 THEN type_hint(n.data_types[1])
    ELSE C6_Alternatives(n, k - 1) \o <<", ">> \o type_hint(n.data_types[k])

\* C6: a node with no name, no shape flag and is_func false renders as ''
\* with no child, as its child's hint with one child, and as the Union of
\* its children's hints, in their order, with two or more.
C6_ChildCount ==
    LET k == Len(node.data_types)
    IN  (rendered /\ ~StrTruthy(node.type) /\ NoFlags(node) /\ ~node.is_func) =>
            /\ k = 0 => hint = <<>>
            /\ k = 1 => hint = type_hint(node.data_types[1])
            /\ k >= 2 => hint = <<"Union", "[">> \o C6_Alternatives(node, k)
                                \o <<"]">>

\* "Union[int, List['Pet']]" has been rendered.
C6_Witness ==
    /\ rendered /\ node.type = None /\ NoFlags(node) /\ ~node.is_func
    /\ hint = <<"Union", "[", "int", ", ", "List", "[", "'", "Pet", "'", "]", "]">>

OtherVersion(v) == IF v = PY_36 THEN PY_37 ELSE PY_36

\* C7: a named node with a reference or the ref flag renders its name in
\* single quotes under PY_36 and bare under another version; a named node
\* with neither renders the same under every version.
C7_Dialect ==
    (rendered /\ StrTruthy(node.type)) =>
        /\ (NoFlags(node) /\ ~node.is_func) =>
              hint = IF Symbolic(node) /\ node.python_version = PY_36
                     THEN <<"'", node.type[1], "'">>
                     ELSE <<node.type[1]>>
        /\ ~Symbolic(node) =>
              hint = type_hint([node EXCEPT !.python_version = OtherVersion(@)])

\* "'Pet'" has been rendered for a node with the ref flag and no reference.
C7_Witness ==
    /\ rendered /\ node.type = Some("Pet") /\ node.ref /\ node.reference = None
    /\ node.python_version = PY_36
    /\ hint = <<"'", "Pet", "'">>

RECURSIVE C8_Args(_, _)
\* The first k items of kwargs as key=value, separated by ', '.
C8_Args(items, k) ==
    IF k = 0 THEN <<>>
    ELSE IF k = 1 THEN <<items[1][1], "=", ToString(items[1][2])>>
    ELSE C8_Args(items, k - 1) \o <<", ">>
         \o <<items[k][1], "=", ToString(items[k][2])>>

\* C8: with is_func set the hint is F(args), F the hint with is_func unset
\* and args the items of kwargs in order, '()' when there are none; with
\* is_func unset kwargs does not change the hint.
C8_Call ==
    LET F == type_hint([node EXCEPT !.is_func = FALSE])
        args == IF node.kwargs = None THEN <<>>
                ELSE C8_Args(node.kwargs[1], Len(node.kwargs[1]))
    IN  rendered =>
            /\ node.is_func => hint = F \o <<"(">> \o args \o <<")">>
            /\ ~node.is_func => hint = type_hint([node EXCEPT !.kwargs = None])

\* 'Field(default=1)' has been rendered.
C8_Witness ==
    /\ rendered /\ node.is_func
    /\ hint = <<"Field", "(", "default", "=", "1", ")">>

(***************************************************************************)
(* Traversal.  Reading all_data_types makes a generator; it is run to its  *)
(* end, and the property is then read again.  frames holds the suspended   *)
(* generators, the outermost first: each is at a node, in round i of its   *)
(* loop over the children or past it, before or after its own yield.       *)
(***************************************************************************)
RECURSIVE TreesOfSize(_)
RECURSIVE ForestsOfSize(_)
\* The trees of exactly n nodes, each built by the constructor over its
\* children, and the sequences of trees of n nodes in all.
TreesOfSize(n) ==
    {DataType("DataType", [data_types |-> f]) : f \in ForestsOfSize(n - 1)}

ForestsOfSize(n) ==
    IF n = 0 THEN {<<>>}
    ELSE UNION {{<<t>> \o f : t \in TreesOfSize(k), f \in ForestsOfSize(n - k)} :
                k \in 1..n}

TraverseTrees == UNION {TreesOfSize(n) : n \in 1..(MaxNodes + 2)}

InitTraverse ==
    /\ node \in TraverseTrees
    /\ frames = <<>> /\ out = <<>> /\ prev = <<>> /\ runs = 0
    /\ stack = <<>> /\ hint = <<>> /\ rendered = FALSE

\* The generator of the node at path, not yet started.
NewFrame(path) == [path |-> path, i |-> 1, yielded |-> FALSE]

\* Where a generator resumes yielding itself before its children.
Resume_SelfFirst(frame, self) ==
    IF ~frame.yielded THEN "yield self"
    ELSE IF frame.i <= Len(self.data_types) THEN "yield from"
    ELSE "return"

\* Where the generator of self resumes: in the loop over the children, at
\* its own yield, or at its end.
Resume(frame, self) ==
    IF frame.i <= Len(self.data_types) THEN "yield from"
    ELSE IF ~frame.yielded THEN "yield self"
    ELSE "return"

Top == frames[Len(frames)]

\* The generator that runs is at one of these three places.
At(place) == frames # <<>> /\ Resume(Top, NodeAt(node, Top.path)) = place

\* node.all_data_types is read and iterated, for the first time or again
\* after the generator before it has ended.
Iterate ==
    /\ frames = <<>> /\ runs < MaxRuns
    /\ frames' = <<NewFrame(<<>>)>>
    /\ prev' = out /\ out' = <<>> /\ runs' = runs + 1
    /\ UNCHANGED <<stack, node, hint, rendered>>

\* yield from data_type.all_data_types: the child's generator starts.
YieldFrom ==
    /\ At("yield from")
    /\ frames' = Append(frames, NewFrame(Append(Top.path, Top.i)))
    /\ UNCHANGED <<stack, node, hint, rendered, out, prev, runs>>

\* yield self: the node reaches the consumer.
YieldSelf ==
    /\ At("yield self")
    /\ out' = Append(out, Top.path)
    /\ frames' = [frames EXCEPT ![Len(frames)].yielded = TRUE]
    /\ UNCHANGED <<stack, node, hint, rendered, prev, runs>>

\* The generator ends; the loop of the one that delegated to it goes on.
Return ==
    /\ At("return")
    /\ frames' = IF Len(frames) = 1 THEN <<>>
                 ELSE [SubSeq(frames, 1, Len(frames) - 1)
                          EXCEPT ![Len(frames) - 1].i = @ + 1]
    /\ UNCHANGED <<stack, node, hint, rendered, out, prev, runs>>

NextTraverse == Iterate \/ YieldFrom \/ YieldSelf \/ Return

\* The consumer's loop and the generators run on: no step waits for ever.
SpecTraverse == InitTraverse /\ [][NextTraverse]_vars /\ WF_vars(NextTraverse)

Exhausted == runs > 0 /\ frames = <<>>

\* p names a node strictly above q.
Above(p, q) == Len(p) < Len(q) /\ SubSeq(q, 1, Len(p)) = p

\* p and q part at some child index, p into the earlier child.
LeftOf(p, q) ==
    \E k \in 1..Len(p) :
        /\ k <= Len(q)
        /\ SubSeq(p, 1, k - 1) = SubSeq(q, 1, k - 1)
        /\ p[k] < q[k]

\* s lists every node of the tree once, each after all nodes below it and
\* after all nodes of earlier siblings' subtrees, the root last.
IsPostOrder(tree, s) ==
    /\ Range(s) = Paths(tree)
    /\ NoDuplicates(s)
    /\ \A a, b \in 1..Len(s) : Above(s[a], s[b]) => b < a
    /\ \A a, b \in 1..Len(s) : LeftOf(s[a], s[b]) => a < b
    /\ s # <<>> /\ s[Len(s)] = <<>>

\* C9: every iteration of all_data_types ends, having yielded the nodes of
\* the tree in post-order, each once and the root last; a second iteration
\* yields the same sequence as the first.
C9_PostOrder ==
    /\ [](Exhausted => IsPostOrder(node, out))
    /\ []((Exhausted /\ runs >= 2) => out = prev)
    /\ [](frames # <<>> => <>Exhausted)

\* A tree of two children, the first with a child of its own, has been
\* iterated twice.
C9_Witness ==
    /\ Exhausted /\ runs = 2
    /\ out = << <<1, 1>>, <<1>>, <<2>>, <<>> >>

====
